---- MODULE Spec2Model ----
(***************************************************************************)
(* A model of griffe's breaking-change finder (src/griffe/diff.py).        *)
(*                                                                         *)
(* Two declaration trees (the old and the new version of an API) are       *)
(* walked in lockstep by find_breaking_changes, which yields a sequence of *)
(* breakages.  The walk is a pure function of the two trees and the        *)
(* ignore_private flag; the state machine draws the two trees from bounded  *)
(* families and then consumes the whole generator, as the test does with   *)
(* list(find_breaking_changes(old_module, new_module)).                    *)
(*                                                                         *)
(* Python objects are modelled as records.  A declaration node carries a   *)
(* ref (which tree it belongs to and its path from the root), standing for *)
(* the object's identity.  A Python value (a parameter default, a return   *)
(* annotation, an attribute value) is a record [expr, eq_raises]: its      *)
(* source text and the exception its equality raises, if any.              *)
(***************************************************************************)
EXTENDS Integers, Sequences, FiniteSets, TLC

VARIABLES old_module, new_module, ignore_private_arg, breaking, raised, pc

vars == <<old_module, new_module, ignore_private_arg, breaking, raised, pc>>

-----------------------------------------------------------------------------
(* Python values and their equality *)

NoException == "none"

Value(expr, eq_raises) == [expr |-> expr, eq_raises |-> eq_raises]

Expr(expr) == Value(expr, NoException)

None == Expr("None")

\* a == b: "True", "False", or the name of the exception the comparison raises
PyEq(a, b) ==
    IF a.eq_raises # NoException THEN a.eq_raises
    ELSE IF b.eq_raises # NoException THEN b.eq_raises
    ELSE IF a = b THEN "True" ELSE "False"

\* a != b
PyNe(a, b) ==
    LET eq == PyEq(a, b)
    IN  IF eq = "True" THEN "False" ELSE IF eq = "False" THEN "True" ELSE eq

-----------------------------------------------------------------------------
(* The declaration tree (griffe.dataclasses, consumed read-only) *)

ParameterKind ==
    {"positional_only", "positional_or_keyword", "var_positional", "keyword_only", "var_keyword"}

Kind == {"module", "class", "function", "attribute", "alias"}

Parameter(name, kind, default) == [name |-> name, kind |-> kind, default |-> default]

Ref(tree, path) == [tree |-> tree, path |-> path]

\* An unplaced node: its ref is set when the tree is assembled.
Object(name, kind, is_alias, exported, members, parameters, returns, value, bases) ==
    [ref |-> Ref("", <<>>), name |-> name, kind |-> kind, is_alias |-> is_alias,
     exported |-> exported, members |-> members, parameters |-> parameters,
     returns |-> returns, value |-> value, bases |-> bases]

Module(name, exported, members) ==
    Object(name, "module", FALSE, exported, members, <<>>, None, None, <<>>)

Class(name, exported, bases, members) ==
    Object(name, "class", FALSE, exported, members, <<>>, None, None, bases)

Function(name, exported, parameters, returns) ==
    Object(name, "function", FALSE, exported, <<>>, parameters, returns, None, <<>>)

Attribute(name, exported, value) ==
    Object(name, "attribute", FALSE, exported, <<>>, <<>>, None, value, <<>>)

\* An alias that cannot be resolved has kind alias; a resolved one has its target's kind.
Alias(name, exported, kind) ==
    Object(name, kind, TRUE, exported, <<>>, <<>>, None, None, <<>>)

\* name in obj.members / name in function.parameters
Contains(seq, name) == \E i \in 1..Len(seq) : seq[i].name = name

\* obj.members[name] / function.parameters[name]
Lookup(seq, name) == seq[CHOOSE i \in 1..Len(seq) : seq[i].name = name]

\* Index counting from 1
Index_OneBased(seq, name) ==
    CHOOSE i \in 1..Len(seq) : seq[i].name = name /\ \A j \in 1..(i - 1) : seq[j].name # name

\* names.index(name), 0-based: the first position holding the name
Index(seq, name) ==
    (CHOOSE i \in 1..Len(seq) : seq[i].name = name /\ \A j \in 1..(i - 1) : seq[j].name # name) - 1

\* name.startswith("_")
StartsWithUnderscore(name) == Len(name) > 0 /\ SubSeq(name, 1, 1) = "_"

is_exported(obj) == obj.exported

\* The tree rooted at obj with every node's identity set: which tree, which path.
RECURSIVE Place(_, _, _)
Place(obj, tree, path) ==
    [obj EXCEPT !.ref = Ref(tree, path),
                !.members = [i \in 1..Len(obj.members) |->
                                Place(obj.members[i], tree, Append(path, obj.members[i].name))]]

-----------------------------------------------------------------------------
(* Breakages *)

POSITIONAL == {"positional_only", "positional_or_keyword"}

Breakage(kind, obj, old_value, new_value, details) ==
    [kind |-> kind, obj |-> obj.ref, old_value |-> old_value, new_value |-> new_value,
     details |-> details]

ParameterMovedBreakage(obj, old_value, new_value, details) ==
    Breakage("PARAMETER_MOVED", obj, old_value, new_value, details)

ParameterRemovedBreakage(obj, old_value, new_value) ==
    Breakage("PARAMETER_REMOVED", obj, old_value, new_value, "")

ParameterChangedKindBreakage(obj, old_value, new_value) ==
    Breakage("PARAMETER_CHANGED_KIND", obj, old_value, new_value, "")

ParameterChangedDefaultBreakage(obj, old_value, new_value) ==
    Breakage("PARAMETER_CHANGED_DEFAULT", obj, old_value, new_value, "")

ParameterChangedRequiredBreakage(obj, old_value, new_value) ==
    Breakage("PARAMETER_CHANGED_REQUIRED", obj, old_value, new_value, "")

ParameterAddedRequiredBreakage(obj, old_value, new_value) ==
    Breakage("PARAMETER_ADDED_REQUIRED", obj, old_value, new_value, "")

ReturnChangedTypeBreakage(obj, old_value, new_value) ==
    Breakage("RETURN_CHANGED_TYPE", obj, old_value, new_value, "")

ObjectRemovedBreakage(obj, old_value, new_value) ==
    Breakage("OBJECT_REMOVED", obj, old_value, new_value, "")

ObjectChangedKindBreakage(obj, old_value, new_value) ==
    Breakage("OBJECT_CHANGED_KIND", obj, old_value, new_value, "")

AttributeChangedValueBreakage(obj, old_value, new_value) ==
    Breakage("ATTRIBUTE_CHANGED_VALUE", obj, old_value, new_value, "")

ClassRemovedBaseBreakage(obj, old_value, new_value) ==
    Breakage("CLASS_REMOVED_BASE", obj, old_value, new_value, "")

(* Severity: the five levels, and the two saturating steps *)

Severity == {"very low", "low", "medium", "high", "very high"}

up(self) ==
    CASE self = "very low"  -> "low"
      [] self = "low"       -> "medium"
      [] self = "medium"    -> "high"
      [] self = "high"      -> "very high"
      [] self = "very high" -> "very high"

down(self) ==
    CASE self = "very low"  -> "very low"
      [] self = "low"       -> "very low"
      [] self = "medium"    -> "low"
      [] self = "high"      -> "medium"
      [] self = "very high" -> "high"

(* The class attribute default_severity of each breakage class, by its kind *)
default_severity(kind) ==
    CASE kind = "PARAMETER_MOVED"            -> "very high"
      [] kind = "PARAMETER_REMOVED"          -> "medium"
      [] kind = "PARAMETER_CHANGED_KIND"     -> "medium"
      [] kind = "PARAMETER_CHANGED_DEFAULT"  -> "very high"
      [] kind = "PARAMETER_CHANGED_REQUIRED" -> "medium"
      [] kind = "PARAMETER_ADDED_REQUIRED"   -> "high"
      [] kind = "RETURN_CHANGED_TYPE"        -> "medium"
      [] kind = "OBJECT_REMOVED"             -> "medium"
      [] kind = "OBJECT_CHANGED_KIND"        -> "low"
      [] kind = "ATTRIBUTE_CHANGED_TYPE"     -> "very high"
      [] kind = "ATTRIBUTE_CHANGED_VALUE"    -> "low"
      [] kind = "CLASS_REMOVED_BASE"         -> "low"

(* What a property body returns when it ends without a return statement:
   Python's None, which is none of the Severity members *)
ImplicitNone == "None"

(* Breakage.severity *)
Breakage_severity(self) == default_severity(self.kind)

(* ParameterMovedBreakage.severity: the only override; its body has a return
   on the branch of the old parameter without a default, and no other *)
ParameterMovedBreakage_severity(self) ==
    IF self.old_value.default = None
    THEN up(default_severity(self.kind))
    ELSE ImplicitNone

(* The severity property of a breakage, dispatched on its class *)
severity(self) ==
    IF self.kind = "PARAMETER_MOVED"
    THEN ParameterMovedBreakage_severity(self)
    ELSE Breakage_severity(self)

-----------------------------------------------------------------------------
(* Generators: what was yielded, and the exception that ended the iteration *)

Yielded(out) == [out |-> out, exc |-> NoException]

Raise(exc) == [out |-> <<>>, exc |-> exc]

\* first, and then rest unless first raised
Then(first, rest) ==
    IF first.exc # NoException THEN first
    ELSE [out |-> first.out \o rest.out, exc |-> rest.exc]

-----------------------------------------------------------------------------
(* The compatibility rules *)

_is_param_required(param) == param.kind \in POSITIONAL /\ param.default = None

\* f"{n:+}"
Signed(n) == IF n >= 0 THEN "+" \o ToString(n) ELSE "-" \o ToString(0 - n)

\* MovedDetails with the two indexes exchanged
MovedDetails_Exchanged(old_index, new_index) ==
    "position: from " \o ToString(new_index) \o " to " \o ToString(old_index)
        \o " (" \o Signed(old_index - new_index) \o ")"

MovedDetails(old_index, new_index) ==
    "position: from " \o ToString(old_index) \o " to " \o ToString(new_index)
        \o " (" \o Signed(new_index - old_index) \o ")"

\* _returns_are_compatible without contextlib.suppress
_returns_are_compatible_Unsuppressed(old_function, new_function) ==
    IF old_function.returns = None THEN [value |-> TRUE, exc |-> NoException]
    ELSE IF new_function.returns = None THEN [value |-> FALSE, exc |-> NoException]
    ELSE LET eq == PyEq(new_function.returns, old_function.returns)
         IN  IF eq \in {"True", "False"}
             THEN [value |-> TRUE, exc |-> NoException]
             ELSE [value |-> TRUE, exc |-> eq]

\* [value, exc]: the function's answer, or the exception that escapes it
_returns_are_compatible(old_function, new_function) ==
    IF old_function.returns = None THEN [value |-> TRUE, exc |-> NoException]
    ELSE IF new_function.returns = None THEN [value |-> FALSE, exc |-> NoException]
    ELSE LET eq == PyEq(new_function.returns, old_function.returns)
         IN  IF eq \in {"True", "False", "AttributeError"}
             THEN [value |-> TRUE, exc |-> NoException]
             ELSE [value |-> TRUE, exc |-> eq]

\* PositionBreakages with the position checked whatever the new kind
PositionBreakages_NoPriority(old_function, new_function, old_index, old_param, new_param) ==
    IF old_param.kind \in POSITIONAL
    THEN (IF new_param.kind \notin POSITIONAL
          THEN <<ParameterChangedKindBreakage(new_function, old_param, new_param)>>
          ELSE <<>>)
         \o (LET new_index == Index(new_function.parameters, old_param.name)
             IN  IF new_index # old_index
                 THEN <<ParameterMovedBreakage(new_function, old_param, new_param,
                                               MovedDetails(old_index, new_index))>>
                 ELSE <<>>)
    ELSE <<>>

\* the kind/position part of one iteration of the loop over the old parameters
PositionBreakages(old_function, new_function, old_index, old_param, new_param) ==
    IF old_param.kind \in POSITIONAL
    THEN IF new_param.kind \notin POSITIONAL
         THEN <<ParameterChangedKindBreakage(new_function, old_param, new_param)>>
         ELSE LET new_index == Index(new_function.parameters, old_param.name)
              IN  IF new_index # old_index
                  THEN <<ParameterMovedBreakage(new_function, old_param, new_param,
                                                MovedDetails(old_index, new_index))>>
                  ELSE <<>>
    ELSE <<>>

\* one iteration of the loop over the old parameters (old_index is 0-based)
OldParameterBreakages(old_function, new_function, old_index) ==
    LET old_param == old_function.parameters[old_index + 1]
    IN  IF ~Contains(new_function.parameters, old_param.name)
        THEN <<ParameterRemovedBreakage(new_function, old_param, None)>>
        ELSE LET new_param == Lookup(new_function.parameters, old_param.name)
             IN  (IF _is_param_required(new_param) /\ ~_is_param_required(old_param)
                  THEN <<ParameterChangedRequiredBreakage(new_function, old_param, new_param)>>
                  ELSE <<>>)
                 \o PositionBreakages(old_function, new_function, old_index, old_param, new_param)
                 \o (IF PyNe(old_param.default, new_param.default) # "False"
                     THEN <<ParameterChangedDefaultBreakage(new_function, old_param, new_param)>>
                     ELSE <<>>)

RECURSIVE OldParametersLoop(_, _, _)
OldParametersLoop(old_function, new_function, old_index) ==
    IF old_index >= Len(old_function.parameters) THEN <<>>
    ELSE OldParameterBreakages(old_function, new_function, old_index)
         \o OldParametersLoop(old_function, new_function, old_index + 1)

RECURSIVE NewParametersLoop(_, _, _)
NewParametersLoop(old_function, new_function, i) ==
    IF i > Len(new_function.parameters) THEN <<>>
    ELSE LET new_param == new_function.parameters[i]
         IN  (IF ~Contains(old_function.parameters, new_param.name) /\ _is_param_required(new_param)
              THEN <<ParameterAddedRequiredBreakage(new_function, None, new_param)>>
              ELSE <<>>)
             \o NewParametersLoop(old_function, new_function, i + 1)

_function_incompatibilities(old_function, new_function) ==
    LET compatible == _returns_are_compatible(old_function, new_function)
    IN  Then(Yielded(OldParametersLoop(old_function, new_function, 0)
                     \o NewParametersLoop(old_function, new_function, 1)),
             IF compatible.exc # NoException THEN Raise(compatible.exc)
             ELSE IF ~compatible.value
             THEN Yielded(<<ReturnChangedTypeBreakage(new_function, old_function.returns,
                                                      new_function.returns)>>)
             ELSE Yielded(<<>>))

_attribute_incompatibilities(old_attribute, new_attribute) ==
    LET ne == PyNe(old_attribute.value, new_attribute.value)
    IN  IF ne = "True"
        THEN Yielded(<<AttributeChangedValueBreakage(new_attribute, old_attribute.value,
                                                     new_attribute.value)>>)
        ELSE IF ne = "False" THEN Yielded(<<>>)
        ELSE Raise(ne)

\* ClassBasesBreakages without the comparison of lengths
ClassBasesBreakages_AnyDifference(old_class, new_class) ==
    IF new_class.bases # old_class.bases
    THEN <<ClassRemovedBaseBreakage(new_class, old_class.bases, new_class.bases)>>
    ELSE <<>>

ClassBasesBreakages(old_class, new_class) ==
    IF new_class.bases # old_class.bases /\ Len(new_class.bases) < Len(old_class.bases)
    THEN <<ClassRemovedBaseBreakage(new_class, old_class.bases, new_class.bases)>>
    ELSE <<>>

RECURSIVE MembersLoop(_, _, _, _)

_member_incompatibilities(old_obj, new_obj, ignore_private) ==
    MembersLoop(old_obj, new_obj, ignore_private, 1)

_class_incompatibilities(old_class, new_class, ignore_private) ==
    Then(Yielded(ClassBasesBreakages(old_class, new_class)),
         _member_incompatibilities(old_class, new_class, ignore_private))

\* the rule of the members' common kind; any other kind has none
KindIncompatibilities(old_member, new_member, ignore_private) ==
    IF old_member.kind = "module"
    THEN _member_incompatibilities(old_member, new_member, ignore_private)
    ELSE IF old_member.kind = "class"
    THEN _class_incompatibilities(old_member, new_member, ignore_private)
    ELSE IF old_member.kind = "function"
    THEN _function_incompatibilities(old_member, new_member)
    ELSE IF old_member.kind = "attribute"
    THEN _attribute_incompatibilities(old_member, new_member)
    ELSE Yielded(<<>>)

\* MatchedBreakages going on to the rule of the old kind after a change of kind
MatchedBreakages_KindChangeGoesOn(old_member, new_member, ignore_private) ==
    IF old_member.is_alias THEN Yielded(<<>>)
    ELSE Then(IF new_member.kind # old_member.kind
              THEN Yielded(<<ObjectChangedKindBreakage(new_member, old_member.kind, new_member.kind)>>)
              ELSE Yielded(<<>>),
              KindIncompatibilities(old_member, new_member, ignore_private))

\* an old member and the new member of its name
MatchedBreakages(old_member, new_member, ignore_private) ==
    IF old_member.is_alias THEN Yielded(<<>>)
    ELSE IF new_member.kind # old_member.kind
    THEN Yielded(<<ObjectChangedKindBreakage(new_member, old_member.kind, new_member.kind)>>)
    ELSE KindIncompatibilities(old_member, new_member, ignore_private)

\* RemovedBreakages without the is_exported test
RemovedBreakages_Unconditional(old_member) ==
    <<ObjectRemovedBreakage(old_member, old_member.ref, None)>>

\* RemovedBreakages with the old member as the new value too
RemovedBreakages_OldAsNew(old_member) ==
    IF is_exported(old_member)
    THEN <<ObjectRemovedBreakage(old_member, old_member.ref, old_member.ref)>>
    ELSE <<>>

\* an old member without a new member of its name
RemovedBreakages(old_member) ==
    IF is_exported(old_member)
    THEN <<ObjectRemovedBreakage(old_member, old_member.ref, None)>>
    ELSE <<>>

\* MemberBreakages skipping a private member only if it is not exported
MemberBreakages_UnlessExported(old_obj, new_obj, ignore_private, old_member) ==
    IF ignore_private /\ StartsWithUnderscore(old_member.name) /\ ~is_exported(old_member)
    THEN Yielded(<<>>)
    ELSE IF ~Contains(new_obj.members, old_member.name)
    THEN Yielded(RemovedBreakages(old_member))
    ELSE MatchedBreakages(old_member, Lookup(new_obj.members, old_member.name), ignore_private)

\* one iteration of the loop over old_obj.members.items()
MemberBreakages(old_obj, new_obj, ignore_private, old_member) ==
    IF ignore_private /\ StartsWithUnderscore(old_member.name) THEN Yielded(<<>>)
    ELSE IF ~Contains(new_obj.members, old_member.name)
    THEN Yielded(RemovedBreakages(old_member))
    ELSE MatchedBreakages(old_member, Lookup(new_obj.members, old_member.name), ignore_private)

MembersLoop(old_obj, new_obj, ignore_private, i) ==
    IF i > Len(old_obj.members) THEN Yielded(<<>>)
    ELSE Then(MemberBreakages(old_obj, new_obj, ignore_private, old_obj.members[i]),
              MembersLoop(old_obj, new_obj, ignore_private, i + 1))

find_breaking_changes(old_obj, new_obj, ignore_private) ==
    _member_incompatibilities(old_obj, new_obj, ignore_private)

-----------------------------------------------------------------------------
(* The state machine *)

\* breaking = list(find_breaking_changes(old_module, new_module, ignore_private_arg))
Walk ==
    /\ pc = "start"
    /\ LET found == find_breaking_changes(old_module, new_module, ignore_private_arg)
       IN  /\ breaking' = found.out
           /\ raised' = found.exc
    /\ pc' = "done"
    /\ UNCHANGED <<old_module, new_module, ignore_private_arg>>

Next == Walk

\* old and new are placed trees
StartWith(old, new, flag) ==
    /\ old_module = old
    /\ new_module = new
    /\ ignore_private_arg = flag
    /\ breaking = <<>>
    /\ raised = NoException
    /\ pc = "start"

\* two trees built apart, one per version
Start(old, new, flag) == StartWith(Place(old, "old", <<>>), Place(new, "new", <<>>), flag)

-----------------------------------------------------------------------------
(* The inputs: signatures *)

MaxParams == 2

ParamNames == <<"x", "y", "z">>

DefaultValues == {None, Expr("0")}

\* what one parameter of a signature can be; *args takes no default (**kwargs, which
\* the rules treat as they treat *args, is left out)
ParameterPool ==
    {Parameter(ParamNames[n], kind, default) :
        n \in 1..Len(ParamNames), kind \in {"positional_only", "positional_or_keyword", "keyword_only"},
        default \in DefaultValues}
    \cup {Parameter(ParamNames[n], "var_positional", None) : n \in 1..Len(ParamNames)}

KindRank(kind) ==
    CASE kind = "positional_only" -> 0
      [] kind = "positional_or_keyword" -> 1
      [] kind = "var_positional" -> 2
      [] kind = "keyword_only" -> 3
      [] kind = "var_keyword" -> 4

\* a parameter list Python accepts: distinct names, kinds in order, one *args and one
\* **kwargs at most, no positional parameter without default after one with a default
ValidSignature(ps) ==
    /\ \A i, j \in 1..Len(ps) : i # j => ps[i].name # ps[j].name
    /\ \A i \in 1..(Len(ps) - 1) :
        /\ KindRank(ps[i].kind) <= KindRank(ps[i + 1].kind)
        /\ ps[i].kind = ps[i + 1].kind => ps[i].kind \notin {"var_positional", "var_keyword"}
        /\ (ps[i].kind \in POSITIONAL /\ ps[i + 1].kind \in POSITIONAL /\ ps[i].default # None)
              => ps[i + 1].default # None

Signatures ==
    UNION {{ps \in [1..n -> ParameterPool] : ValidSignature(ps)} : n \in 0..MaxParams}

\* the signatures whose parameters are named x, y, ... in this order
OldSignatures == {ps \in Signatures : \A i \in 1..Len(ps) : ps[i].name = ParamNames[i]}

ReturnValues ==
    {None, Expr("int"), Expr("str"), Value("Lazy", "AttributeError"), Value("Array", "ValueError")}

ComparedDefaults == {None, Expr("0"), Expr("1"), Value("array", "ValueError")}

-----------------------------------------------------------------------------
(* The inputs: members, classes, modules *)

MaxBases == 2

MaxMembers == 1

BaseNames == <<"int", "str", "object">>

\* the base lists of a class statement: distinct names
BasesLists ==
    UNION {{bs \in [1..n -> {BaseNames[k] : k \in 1..Len(BaseNames)}] :
                \A i, j \in 1..n : i # j => bs[i] # bs[j]} : n \in 0..MaxBases}

AttributeValues == {Expr("0"), Expr("1")}

\* what a nested class or module holds: a public and a private attribute
InnerMembers == {Attribute(name, TRUE, value) : name \in {"v", "_w"}, value \in AttributeValues}

Bodies ==
    UNION {{ms \in [1..n -> InnerMembers] : \A i, j \in 1..n : i # j => ms[i].name # ms[j].name} :
              n \in 0..MaxMembers}

\* what the member called name can be
Members(name, exported) ==
    {Attribute(name, exported, value) : value \in AttributeValues}
    \cup {Function(name, exported, parameters, None) :
            parameters \in {<<>>, <<Parameter("x", "positional_or_keyword", None)>>}}
    \cup {Class(name, exported, bases, body) : bases \in {<<>>, <<"int">>}, body \in Bodies}
    \cup {Module(name, exported, body) : body \in Bodies}
    \cup {Alias(name, exported, kind) : kind \in {"alias", "function"}}

-----------------------------------------------------------------------------
(* The inputs: the two versions of a module *)

\* The module's first member is the one under study; g is a second, public attribute
\* whose value changes between the versions (g = True, then g = False).
ModuleOf(members, value) == Module("m", TRUE, members \o <<Attribute("g", TRUE, Expr(value))>>)

FunctionModule(parameters, returns, value) ==
    ModuleOf(<<Function("f", TRUE, parameters, returns)>>, value)

\* def f(<old signature>) against def f(<new signature>)
InitSignatures ==
    \E old_parameters \in OldSignatures, new_parameters \in Signatures :
        Start(FunctionModule(old_parameters, None, "True"),
              FunctionModule(new_parameters, None, "False"), TRUE)

\* def f(x=<default>) -> <returns> in both versions
InitReturns ==
    \E old_default \in ComparedDefaults, new_default \in ComparedDefaults,
       old_returns \in ReturnValues, new_returns \in ReturnValues :
        Start(FunctionModule(<<Parameter("x", "positional_or_keyword", old_default)>>, old_returns, "True"),
              FunctionModule(<<Parameter("x", "positional_or_keyword", new_default)>>, new_returns, "False"),
              TRUE)

\* the bodies whose attributes are all 0
OldBodies == {body \in Bodies : \A i \in 1..Len(body) : body[i].value = Expr("0")}

\* class A(<old bases>): <old body> against class A(<new bases>): <new body>
InitClasses ==
    \E old_bases \in BasesLists, new_bases \in BasesLists, old_body \in OldBodies, new_body \in Bodies,
       flag \in BOOLEAN :
        Start(ModuleOf(<<Class("A", TRUE, old_bases, old_body)>>, "True"),
              ModuleOf(<<Class("A", TRUE, new_bases, new_body)>>, "False"), flag)

\* a member a or _a of any kind, against the new version without it, or with a member
\* of that name of any kind
InitMembers ==
    \E name \in {"a", "_a"}, exported \in BOOLEAN, flag \in BOOLEAN :
        \E old_member \in Members(name, exported) :
            \/ Start(ModuleOf(<<old_member>>, "True"), ModuleOf(<<>>, "False"), flag)
            \/ \E new_member \in Members(name, TRUE) :
                   Start(ModuleOf(<<old_member>>, "True"), ModuleOf(<<new_member>>, "False"), flag)

\* every module above
Modules ==
    {FunctionModule(parameters, None, "True") : parameters \in Signatures}
    \cup {FunctionModule(<<Parameter("x", "positional_or_keyword", default)>>, returns, "True") :
            default \in ComparedDefaults, returns \in ReturnValues}
    \cup {ModuleOf(<<Class("A", TRUE, bases, body)>>, "True") : bases \in BasesLists, body \in Bodies}
    \cup UNION {{ModuleOf(<<member>>, "True") : member \in Members(name, exported)} :
                  name \in {"a", "_a"}, exported \in BOOLEAN}

\* find_breaking_changes(module, module): one tree, given as the old and as the new one
InitIdentity ==
    \E module \in Modules, flag \in BOOLEAN :
        StartWith(Place(module, "both", <<>>), Place(module, "both", <<>>), flag)

Init == InitSignatures \/ InitReturns \/ InitClasses \/ InitMembers \/ InitIdentity

Spec == Init /\ [][Next]_vars

-----------------------------------------------------------------------------
(* Reading the two trees and the breakages found *)

Done == pc = "done"

IsPrefix(p, q) == Len(p) <= Len(q) /\ SubSeq(q, 1, Len(p)) = p

Parent(path) == SubSeq(path, 1, Len(path) - 1)

Last(path) == path[Len(path)]

RECURSIVE HasNode(_, _)
HasNode(obj, path) ==
    \/ path = <<>>
    \/ Contains(obj.members, Head(path)) /\ HasNode(Lookup(obj.members, Head(path)), Tail(path))

RECURSIVE NodeAt(_, _)
NodeAt(obj, path) ==
    IF path = <<>> THEN obj ELSE NodeAt(Lookup(obj.members, Head(path)), Tail(path))

\* the paths of the members of obj, of their members, and so on
RECURSIVE MemberPaths(_)
MemberPaths(obj) ==
    UNION {{<<obj.members[i].name>>} \cup {<<obj.members[i].name>> \o q : q \in MemberPaths(obj.members[i])} :
              i \in 1..Len(obj.members)}

\* ref is the identity of a node of tree
IsNodeOf(tree, ref) == HasNode(tree, ref.path) /\ NodeAt(tree, ref.path).ref = ref

\* no value of the tree has an equality that raises
RECURSIVE EqualityNeverFails(_)
EqualityNeverFails(obj) ==
    /\ obj.returns.eq_raises = NoException
    /\ obj.value.eq_raises = NoException
    /\ \A i \in 1..Len(obj.parameters) : obj.parameters[i].default.eq_raises = NoException
    /\ \A i \in 1..Len(obj.members) : EqualityNeverFails(obj.members[i])

\* the two trees are one declaration tree: equal node for node, whichever objects hold them
SameTree == Place(old_module, "", <<>>) = Place(new_module, "", <<>>)

RECURSIVE Compared(_)

\* the old node at path is a member of a container the walk compares
Listed(path) == path # <<>> /\ HasNode(old_module, path) /\ Compared(Parent(path))

\* the old member at path is one the walk does not skip as private
Walked(path) == Listed(path) /\ ~(ignore_private_arg /\ StartsWithUnderscore(Last(path)))

\* the old member at path is walked and has a new member of its name
Matched(path) == Walked(path) /\ HasNode(new_module, path)

\* the old member at path is matched to a new member of its kind, and is no alias
MatchedOfKind(path, kind) ==
    /\ Matched(path)
    /\ ~NodeAt(old_module, path).is_alias
    /\ NodeAt(old_module, path).kind = kind
    /\ NodeAt(new_module, path).kind = kind

\* the members of the old node at path are compared with those of the new node at path:
\* the two roots, and every matched pair of modules or classes
Compared(path) ==
    \/ path = <<>>
    \/ MatchedOfKind(path, "module")
    \/ MatchedOfKind(path, "class")

\* the positions in breaking of the breakages about the node at path or anything beneath it
Beneath(path) == {i \in 1..Len(breaking) : IsPrefix(path, breaking[i].obj.path)}

\* the positions in breaking of the breakages of a kind about the node at path itself
About(path, kind) ==
    {i \in 1..Len(breaking) : breaking[i].obj.path = path /\ breaking[i].kind = kind}

ParameterLevel ==
    {"PARAMETER_MOVED", "PARAMETER_REMOVED", "PARAMETER_CHANGED_KIND", "PARAMETER_CHANGED_DEFAULT",
     "PARAMETER_CHANGED_REQUIRED"}

\* the positions in breaking of the breakages of a kind about the old parameter called name
\* of the function at path
AboutParameter(path, name, kind) ==
    {i \in About(path, kind) : kind \in ParameterLevel /\ breaking[i].old_value.name = name}

-----------------------------------------------------------------------------
(* C1: comparing a declaration tree with itself, when no equality of its values   *)
(* raises, yields no breakage and raises nothing, with ignore_private true or     *)
(* false.                                                                         *)

IdentityYieldsNothing ==
    (Done /\ SameTree /\ EqualityNeverFails(old_module))
        => (breaking = <<>> /\ raised = NoException)

\* reached: a module holding def f(x, y=0, ...) compared with itself, private members included
IdentityWitness ==
    /\ Done /\ SameTree /\ EqualityNeverFails(old_module) /\ ~ignore_private_arg
    /\ new_module = old_module
    /\ old_module.members[1].kind = "function"
    /\ Len(old_module.members[1].parameters) = 2
    /\ old_module.members[1].parameters[2].default # None
    /\ breaking = <<>>

-----------------------------------------------------------------------------
(* C2: a walked old member that has no new member of its name yields exactly one  *)
(* breakage, OBJECT_REMOVED about that member, when it is exported, and none when *)
(* it is not; nothing is yielded about what lies beneath it.                      *)

RemovedMemberYieldsOnlyObjectRemoved ==
    Done => \A path \in MemberPaths(old_module) :
        (Walked(path) /\ ~HasNode(new_module, path)) =>
            /\ Cardinality(Beneath(path)) = (IF NodeAt(old_module, path).exported THEN 1 ELSE 0)
            /\ \A i \in Beneath(path) :
                /\ breaking[i].kind = "OBJECT_REMOVED"
                /\ breaking[i].obj.path = path

\* reached: an exported class with a base and a member is removed, and only OBJECT_REMOVED
\* is yielded about it
RemovedMemberWitness ==
    /\ Done
    /\ Len(old_module.members) = 2
    /\ old_module.members[1].kind = "class"
    /\ old_module.members[1].exported
    /\ old_module.members[1].bases # <<>>
    /\ old_module.members[1].members # <<>>
    /\ ~Contains(new_module.members, old_module.members[1].name)
    /\ Walked(<<old_module.members[1].name>>)
    /\ Len(breaking) = 2
    /\ breaking[1].kind = "OBJECT_REMOVED"

-----------------------------------------------------------------------------
(* C3, as claimed: with ignore_private set, an underscore-named old member that   *)
(* is exported is compared like a public member, so that its removal yields       *)
(* OBJECT_REMOVED; one that is not exported is skipped.                           *)

PrivateExportedIsCompared ==
    (Done /\ ignore_private_arg) => \A path \in MemberPaths(old_module) :
        (Listed(path) /\ StartsWithUnderscore(Last(path))) =>
            IF NodeAt(old_module, path).exported
            THEN ~HasNode(new_module, path) => About(path, "OBJECT_REMOVED") # {}
            ELSE Beneath(path) = {}

(* C3, amended: with ignore_private set, an underscore-named old member is        *)
(* skipped whether it is exported or not: nothing is yielded about it or about    *)
(* anything beneath it, removed or changed.                                       *)

PrivateIsSkipped ==
    (Done /\ ignore_private_arg) => \A path \in MemberPaths(old_module) :
        (Listed(path) /\ StartsWithUnderscore(Last(path))) => Beneath(path) = {}

\* reached: with ignore_private set, the exported attribute _a is removed, and only g's
\* change is yielded
PrivateIsSkippedWitness ==
    /\ Done /\ ignore_private_arg
    /\ old_module.members[1].name = "_a"
    /\ old_module.members[1].kind = "attribute"
    /\ old_module.members[1].exported
    /\ ~HasNode(new_module, <<"_a">>)
    /\ Len(breaking) = 1
    /\ breaking[1].kind = "ATTRIBUTE_CHANGED_VALUE"
    /\ breaking[1].obj.path = <<"g">>

-----------------------------------------------------------------------------
(* C4: a matched pair of functions that both declare a return type, the two types *)
(* comparing unequal, yields RETURN_CHANGED_TYPE about the function.              *)

ChangedReturnTypeIsReported ==
    Done => \A path \in MemberPaths(old_module) :
        (/\ MatchedOfKind(path, "function")
         /\ NodeAt(old_module, path).returns # None
         /\ NodeAt(new_module, path).returns # None
         /\ PyEq(NodeAt(new_module, path).returns, NodeAt(old_module, path).returns) = "False")
        => About(path, "RETURN_CHANGED_TYPE") # {}

-----------------------------------------------------------------------------
(* C5: an old positional parameter matched by name to a new parameter that is not *)
(* positional gets exactly one PARAMETER_CHANGED_KIND and no PARAMETER_MOVED,     *)
(* wherever it stands in the new list; no old parameter gets both.                *)

KindChangeSupersedesMove ==
    Done => \A path \in MemberPaths(old_module) :
        MatchedOfKind(path, "function") =>
            LET old_function == NodeAt(old_module, path)
                new_function == NodeAt(new_module, path)
            IN  \A k \in 1..Len(old_function.parameters) :
                    LET old_param == old_function.parameters[k]
                        changed == AboutParameter(path, old_param.name, "PARAMETER_CHANGED_KIND")
                        moved == AboutParameter(path, old_param.name, "PARAMETER_MOVED")
                    IN  /\ (/\ old_param.kind \in POSITIONAL
                            /\ Contains(new_function.parameters, old_param.name)
                            /\ Lookup(new_function.parameters, old_param.name).kind \notin POSITIONAL)
                           => (Cardinality(changed) = 1 /\ moved = {})
                        /\ changed = {} \/ moved = {}

\* reached: def f(x) against def f(y, *, x): x changes kind and index, and gets
\* PARAMETER_CHANGED_KIND alone
KindChangeWitness ==
    /\ Done
    /\ old_module.members[1].kind = "function"
    /\ Len(old_module.members[1].parameters) = 1
    /\ old_module.members[1].parameters[1].kind = "positional_or_keyword"
    /\ MatchedOfKind(<<"f">>, "function")
    /\ Len(new_module.members[1].parameters) = 2
    /\ new_module.members[1].parameters[2].name = "x"
    /\ new_module.members[1].parameters[2].kind = "keyword_only"
    /\ Cardinality(AboutParameter(<<"f">>, "x", "PARAMETER_CHANGED_KIND")) = 1
    /\ AboutParameter(<<"f">>, "x", "PARAMETER_MOVED") = {}

-----------------------------------------------------------------------------
(* C6: an old positional parameter at index i matched by name to a new positional *)
(* parameter at index j gets exactly one PARAMETER_MOVED, with details            *)
(* "position: from i to j (signed j - i)", when j # i, and none when j = i; the   *)
(* PARAMETER_MOVED breakages come in the old declaration order, so that           *)
(* (x, y) -> (y, x) yields x (0 to 1, +1) and then y (1 to 0, -1).                *)

Numeral == <<"0", "1", "2", "3", "4", "5", "6", "7", "8", "9">>

ExpectedDetails(i, j) ==
    "position: from " \o Numeral[i + 1] \o " to " \o Numeral[j + 1] \o " ("
        \o (IF j > i THEN "+" \o Numeral[j - i + 1] ELSE "-" \o Numeral[i - j + 1]) \o ")"

\* the 0-based position of the parameter called name
PositionOf(parameters, name) == (CHOOSE n \in 1..Len(parameters) : parameters[n].name = name) - 1

IsMoved(breakage) == breakage.kind = "PARAMETER_MOVED"

MovedParameterIsReported ==
    Done => \A path \in MemberPaths(old_module) :
        MatchedOfKind(path, "function") =>
            LET old_parameters == NodeAt(old_module, path).parameters
                new_parameters == NodeAt(new_module, path).parameters
                Positional(k) ==
                    /\ old_parameters[k].kind \in POSITIONAL
                    /\ Contains(new_parameters, old_parameters[k].name)
                    /\ Lookup(new_parameters, old_parameters[k].name).kind \in POSITIONAL
                Moved(k) == AboutParameter(path, old_parameters[k].name, "PARAMETER_MOVED")
            IN  /\ \A k \in 1..Len(old_parameters) :
                    Positional(k) =>
                        LET i == k - 1
                            j == PositionOf(new_parameters, old_parameters[k].name)
                        IN  IF j # i
                            THEN /\ Cardinality(Moved(k)) = 1
                                 /\ \A n \in Moved(k) : breaking[n].details = ExpectedDetails(i, j)
                            ELSE Moved(k) = {}
                /\ \A k1, k2 \in 1..Len(old_parameters) :
                    k1 < k2 => \A n1 \in Moved(k1), n2 \in Moved(k2) : n1 < n2
                /\ (/\ Len(old_parameters) = 2 /\ Len(new_parameters) = 2
                    /\ Positional(1) /\ Positional(2)
                    /\ new_parameters[1].name = old_parameters[2].name
                    /\ new_parameters[2].name = old_parameters[1].name)
                   => LET moves == SelectSeq(breaking, IsMoved)
                      IN  /\ Len(moves) = 2
                          /\ moves[1].old_value.name = old_parameters[1].name
                          /\ moves[1].details = "position: from 0 to 1 (+1)"
                          /\ moves[2].old_value.name = old_parameters[2].name
                          /\ moves[2].details = "position: from 1 to 0 (-1)"

\* reached: def f(x, y) against def f(y, x), with the two PARAMETER_MOVED breakages
MovedParameterWitness ==
    /\ Done
    /\ MatchedOfKind(<<"f">>, "function")
    /\ Len(old_module.members[1].parameters) = 2
    /\ \A k \in 1..2 : old_module.members[1].parameters[k].kind = "positional_or_keyword"
    /\ Len(new_module.members[1].parameters) = 2
    /\ \A k \in 1..2 : new_module.members[1].parameters[k].kind = "positional_or_keyword"
    /\ new_module.members[1].parameters[1].name = "y"
    /\ new_module.members[1].parameters[2].name = "x"
    /\ Len(SelectSeq(breaking, IsMoved)) = 2
    /\ SelectSeq(breaking, IsMoved)[1].details = "position: from 0 to 1 (+1)"

-----------------------------------------------------------------------------
(* C7, as claimed: when the equality of the two declared return types of a        *)
(* matched pair of functions raises, whatever the exception, no                   *)
(* RETURN_CHANGED_TYPE is yielded, nothing escapes find_breaking_changes, and the *)
(* walk goes on to the remaining members.                                         *)

\* the walk went through the members: every changed attribute it had to compare is reported
WalkWentOn ==
    \A path \in MemberPaths(old_module) :
        (/\ MatchedOfKind(path, "attribute")
         /\ PyNe(NodeAt(old_module, path).value, NodeAt(new_module, path).value) = "True")
        => About(path, "ATTRIBUTE_CHANGED_VALUE") # {}

\* the equality of the declared return types of the matched functions at path raises one of excs
ReturnsEqualityRaises(path, excs) ==
    /\ MatchedOfKind(path, "function")
    /\ NodeAt(old_module, path).returns # None
    /\ NodeAt(new_module, path).returns # None
    /\ PyEq(NodeAt(new_module, path).returns, NodeAt(old_module, path).returns) \in excs

AnyFailedReturnComparisonIsSwallowed ==
    Done => \A path \in MemberPaths(old_module) :
        ReturnsEqualityRaises(path, {"AttributeError", "ValueError"}) =>
            /\ About(path, "RETURN_CHANGED_TYPE") = {}
            /\ raised = NoException
            /\ WalkWentOn

(* C7, amended: when that equality raises AttributeError, no RETURN_CHANGED_TYPE  *)
(* is yielded, nothing escapes find_breaking_changes, and the walk goes on to the *)
(* remaining members; an exception of another kind escapes.                       *)

AttributeErrorInReturnComparisonIsSwallowed ==
    Done => \A path \in MemberPaths(old_module) :
        /\ ReturnsEqualityRaises(path, {"AttributeError"}) =>
            /\ About(path, "RETURN_CHANGED_TYPE") = {}
            /\ raised = NoException
            /\ WalkWentOn
        /\ ReturnsEqualityRaises(path, {"ValueError"}) => raised = "ValueError"

\* reached: f's return types raise AttributeError when compared, nothing is raised, and
\* g's change, after f, is reported
AttributeErrorWitness ==
    /\ Done
    /\ ReturnsEqualityRaises(<<"f">>, {"AttributeError"})
    /\ raised = NoException
    /\ About(<<"f">>, "RETURN_CHANGED_TYPE") = {}
    /\ About(<<"g">>, "ATTRIBUTE_CHANGED_VALUE") # {}

-----------------------------------------------------------------------------
(* C8, as claimed: every OBJECT_REMOVED breakage has the old member as its obj,   *)
(* as its old_value and as its new_value; every other breakage has a node of the  *)
(* new tree as its obj.                                                           *)

ObjectRemovedHasOldMemberAsBothValues ==
    Done => \A i \in 1..Len(breaking) :
        IF breaking[i].kind = "OBJECT_REMOVED"
        THEN /\ IsNodeOf(old_module, breaking[i].obj)
             /\ breaking[i].old_value = breaking[i].obj
             /\ breaking[i].new_value = breaking[i].obj
        ELSE IsNodeOf(new_module, breaking[i].obj)

(* C8, amended: every OBJECT_REMOVED breakage has the old member, which the new   *)
(* tree lacks, as its obj and as its old_value, and None as its new_value; every  *)
(* other breakage has a node of the new tree as its obj.                          *)

ObjectRemovedHasOldMemberAndNone ==
    Done => \A i \in 1..Len(breaking) :
        IF breaking[i].kind = "OBJECT_REMOVED"
        THEN /\ IsNodeOf(old_module, breaking[i].obj)
             /\ ~HasNode(new_module, breaking[i].obj.path)
             /\ breaking[i].old_value = breaking[i].obj
             /\ breaking[i].new_value = None
        ELSE IsNodeOf(new_module, breaking[i].obj)

\* reached: a walk that yields OBJECT_REMOVED about an old member and then a breakage of
\* another kind about a new node
ObjectRemovedWitness ==
    /\ Done
    /\ Len(breaking) = 2
    /\ breaking[1].kind = "OBJECT_REMOVED"
    /\ breaking[1].obj = old_module.members[1].ref
    /\ breaking[1].new_value = None
    /\ breaking[2].kind = "ATTRIBUTE_CHANGED_VALUE"
    /\ breaking[2].obj.tree = "new"

-----------------------------------------------------------------------------
(* C9: a walked old member that is no alias, matched to a new member of another   *)
(* kind, yields exactly one breakage about it or anything beneath it:             *)
(* OBJECT_CHANGED_KIND about the member, from the old kind to the new kind.       *)

ChangedKindYieldsOnlyObjectChangedKind ==
    Done => \A path \in MemberPaths(old_module) :
        (/\ Matched(path)
         /\ ~NodeAt(old_module, path).is_alias
         /\ NodeAt(new_module, path).kind # NodeAt(old_module, path).kind)
        => /\ Cardinality(Beneath(path)) = 1
           /\ \A i \in Beneath(path) :
                /\ breaking[i].kind = "OBJECT_CHANGED_KIND"
                /\ breaking[i].obj.path = path
                /\ breaking[i].old_value = NodeAt(old_module, path).kind
                /\ breaking[i].new_value = NodeAt(new_module, path).kind

\* reached: class a(int) with a member against def a(x), reported as OBJECT_CHANGED_KIND alone
ChangedKindWitness ==
    /\ Done
    /\ Matched(<<"a">>)
    /\ old_module.members[1].kind = "class"
    /\ old_module.members[1].bases # <<>>
    /\ old_module.members[1].members # <<>>
    /\ new_module.members[1].kind = "function"
    /\ new_module.members[1].parameters # <<>>
    /\ Len(breaking) = 2
    /\ breaking[1].kind = "OBJECT_CHANGED_KIND"
    /\ breaking[1].old_value = "class"
    /\ breaking[1].new_value = "function"

-----------------------------------------------------------------------------
(* C10: a matched pair of classes yields exactly one CLASS_REMOVED_BASE, from the *)
(* old base list to the new one, if the base lists differ and the new one is      *)
(* shorter, and none otherwise; after it come the breakages of the class's own    *)
(* members, compared with the same ignore_private flag.                           *)

ClassRuleChecksBasesThenMembers ==
    Done => \A path \in MemberPaths(old_module) :
        MatchedOfKind(path, "class") =>
            LET old_class == NodeAt(old_module, path)
                new_class == NodeAt(new_module, path)
                removed == About(path, "CLASS_REMOVED_BASE")
                Inside(breakage) ==
                    IsPrefix(path, breakage.obj.path) /\ Len(breakage.obj.path) > Len(path)
                inside == {i \in Beneath(path) : Inside(breaking[i])}
            IN  /\ Cardinality(removed) =
                      (IF new_class.bases # old_class.bases /\ Len(new_class.bases) < Len(old_class.bases)
                       THEN 1 ELSE 0)
                /\ \A i \in removed :
                    /\ breaking[i].old_value = old_class.bases
                    /\ breaking[i].new_value = new_class.bases
                /\ Beneath(path) = removed \cup inside
                /\ \A i \in removed, j \in inside : i < j
                /\ SelectSeq(breaking, Inside)
                     = _member_incompatibilities(old_class, new_class, ignore_private_arg).out

\* reached: class A(int, str) holding _w = 0 against class A(int) holding _w = 1, private
\* members compared: CLASS_REMOVED_BASE and then the change of _w
ClassRuleWitness ==
    /\ Done /\ ~ignore_private_arg
    /\ MatchedOfKind(<<"A">>, "class")
    /\ Len(old_module.members[1].bases) = 2
    /\ Len(new_module.members[1].bases) = 1
    /\ Len(breaking) = 3
    /\ breaking[1].kind = "CLASS_REMOVED_BASE"
    /\ breaking[1].obj.path = <<"A">>
    /\ breaking[2].kind = "ATTRIBUTE_CHANGED_VALUE"
    /\ breaking[2].obj.path = <<"A", "_w">>

-----------------------------------------------------------------------------
(* C11: every breakage yielded by find_breaking_changes has a severity that is   *)
(* one of the five Severity levels, never absent: the default severity of its    *)
(* kind, except for PARAMETER_MOVED, where it is the default raised one          *)
(* saturating step when the old parameter has no default, and the default        *)
(* severity when the old parameter has a default (very high in both cases).      *)

HasNoDefault(parameter) == parameter.default = None

SeverityAsStated(breakage) ==
    IF IsMoved(breakage)
    THEN IF HasNoDefault(breakage.old_value)
         THEN up(default_severity(breakage.kind))
         ELSE default_severity(breakage.kind)
    ELSE default_severity(breakage.kind)

\* violated: f(x=0, y=0) against f(y=0, x=0) yields PARAMETER_MOVED for x, whose old
\* parameter has a default: its severity is None, not a Severity level
SeverityIsNeverAbsent ==
    Done => \A i \in 1..Len(breaking) :
        /\ severity(breaking[i]) \in Severity
        /\ severity(breaking[i]) = SeverityAsStated(breaking[i])
        /\ IsMoved(breaking[i]) => severity(breaking[i]) = "very high"

\* what the code does keep: the severity is as stated for every breakage but a
\* PARAMETER_MOVED whose old parameter has a default, and there it is absent
SeverityIsAbsentOnlyForMovedWithDefault ==
    Done => \A i \in 1..Len(breaking) :
        IF IsMoved(breaking[i]) /\ ~HasNoDefault(breaking[i].old_value)
        THEN severity(breaking[i]) = ImplicitNone
        ELSE severity(breaking[i]) \in Severity
             /\ severity(breaking[i]) = SeverityAsStated(breaking[i])

\* reached: a PARAMETER_MOVED of a parameter without default (very high) and one of
\* a parameter with a default (absent) in the same walk
SeverityWitness ==
    /\ Done
    /\ \E i, j \in 1..Len(breaking) :
        /\ IsMoved(breaking[i]) /\ HasNoDefault(breaking[i].old_value)
        /\ severity(breaking[i]) = "very high"
        /\ IsMoved(breaking[j]) /\ ~HasNoDefault(breaking[j].old_value)
        /\ severity(breaking[j]) = ImplicitNone

====
